---- MODULE Spec2Model ----
(***************************************************************************)
(* Motion and collision core of gengine (package physics): the AABB        *)
(* intersection tests of box.go, the rigid body, the engine tick and the   *)
(* movement controller of movement.go; the player's walk (package game),   *)
(* the block world (package world) and the window's key debounce.          *)
(*                                                                         *)
(* float32 quantities are modelled in fixed point: one world unit is Unit  *)
(* model units.  Inputs are drawn from sets on which every product and     *)
(* quotient of the code is exact in that fixed point, so a result never    *)
(* depends on rounding.  A vector is a triple <<x, y, z>>.                 *)
(***************************************************************************)
EXTENDS Integers, Sequences, FiniteSets, TLC

VARIABLES
    bx,             \* the box calculator: receiver, argument, call made, result
    rb,             \* the RigidBody
    ctl,            \* the MovementController bound to rb
    registrations,  \* PhysicsEngine.registrations (set of body ids)
    pre,            \* rb as it was when the last operation was entered
    call,           \* the last operation and its arguments
    nops,           \* number of operations performed
    world,          \* the World: its chunk map
    win             \* the Window: key state, debounce map, last call

vars == <<bx, rb, ctl, registrations, pre, call, nops, world, win>>

\* One world unit (1.0) in model units: 1/3000 keeps 0.001, 0.2, w/2 and the
\* quotients by 60 (dt = 1/60) integral.
Unit == 3 * 1000

---------------------------------------------------------------------------
\* Vectors (mgl32.Vec3)

Zero3 == <<0, 0, 0>>

VAdd(a, b) == <<a[1] + b[1], a[2] + b[2], a[3] + b[3]>>

VSub(a, b) == <<a[1] - b[1], a[2] - b[2], a[3] - b[3]>>

\* Quotient rounding toward zero (the code's arithmetic is sign-symmetric).
Quot(a, d) == IF a >= 0 THEN a \div d ELSE -((-a) \div d)

\* v.Mul(num/den)
VMul(v, num, den) ==
    <<Quot(v[1] * num, den), Quot(v[2] * num, den), Quot(v[3] * num, den)>>

Abs(x) == IF x < 0 THEN -x ELSE x

---------------------------------------------------------------------------
\* Box (physics/box.go)

NewBox(min, max) == [Min |-> min, Max |-> max]

minf(a, b) == IF a < b THEN a ELSE b

maxf(a, b) == IF a > b THEN a ELSE b

signF(x) == IF x < 0 THEN -1 ELSE 1

\* IntersectionXZ with the overlap test of Intersection (Y included).
IntersectionXZWithY(b, other) ==
    IF \/ b.Max[1] < other.Min[1] \/ b.Min[1] > other.Max[1]
       \/ b.Max[2] < other.Min[2] \/ b.Min[2] > other.Max[2]
       \/ b.Max[3] < other.Min[3] \/ b.Min[3] > other.Max[3]
    THEN [hit |-> FALSE, pen |-> Zero3]
    ELSE LET dx1 == other.Max[1] - b.Min[1]
             dx2 == b.Max[1] - other.Min[1]
             dx  == minf(dx1, dx2)
             dz1 == other.Max[3] - b.Min[3]
             dz2 == b.Max[3] - other.Min[3]
             dz  == minf(dz1, dz2)
         IN  IF dx < dz
             THEN [hit |-> TRUE, pen |-> <<dx * signF(dx1 - dx2), 0, 0>>]
             ELSE [hit |-> TRUE, pen |-> <<0, 0, dz * signF(dz1 - dz2)>>]

\* Box.IntersectionXZ: (bool, Vec3)
IntersectionXZ(b, other) ==
    IF \/ b.Max[1] < other.Min[1] \/ b.Min[1] > other.Max[1]
       \/ b.Max[3] < other.Min[3] \/ b.Min[3] > other.Max[3]
    THEN [hit |-> FALSE, pen |-> Zero3]
    ELSE LET dx1 == other.Max[1] - b.Min[1]
             dx2 == b.Max[1] - other.Min[1]
             dx  == minf(dx1, dx2)
             dz1 == other.Max[3] - b.Min[3]
             dz2 == b.Max[3] - other.Min[3]
             dz  == minf(dz1, dz2)
         IN  IF dx < dz
             THEN [hit |-> TRUE, pen |-> <<dx * signF(dx1 - dx2), 0, 0>>]
             ELSE [hit |-> TRUE, pen |-> <<0, 0, dz * signF(dz1 - dz2)>>]

\* Box.IntersectionY: (bool, float32)
IntersectionY(b, other) ==
    IF \/ b.Max[1] < other.Min[1] \/ b.Min[1] > other.Max[1]
       \/ b.Max[3] < other.Min[3] \/ b.Min[3] > other.Max[3]
    THEN [hit |-> FALSE, depth |-> 0]
    ELSE IF b.Min[2] > other.Max[2] \/ b.Max[2] < other.Min[2]
    THEN [hit |-> FALSE, depth |-> 0]
    ELSE LET dy1 == other.Max[2] - b.Min[2]
             dy2 == b.Max[2] - other.Min[2]
         IN  [hit |-> TRUE, depth |-> minf(dy1, dy2)]

\* Disjoint with its first comparison made non-strict (boxes that touch on
\* the receiver's +x face count as separated).
DisjointTouchX(b, other) ==
    \/ b.Max[1] <= other.Min[1] \/ b.Min[1] > other.Max[1]
    \/ b.Max[2] < other.Min[2] \/ b.Min[2] > other.Max[2]
    \/ b.Max[3] < other.Min[3] \/ b.Min[3] > other.Max[3]

\* The overlap test of Box.Intersection (its first statement).
Disjoint(b, other) ==
    \/ b.Max[1] < other.Min[1] \/ b.Min[1] > other.Max[1]
    \/ b.Max[2] < other.Min[2] \/ b.Min[2] > other.Max[2]
    \/ b.Max[3] < other.Min[3] \/ b.Min[3] > other.Max[3]

\* Box.Intersection: (bool, Vec3)
Intersection(b, other) ==
    IF Disjoint(b, other)
    THEN [hit |-> FALSE, pen |-> Zero3]
    ELSE LET dx1 == other.Max[1] - b.Min[1]
             dx2 == b.Max[1] - other.Min[1]
             dx  == minf(dx1, dx2)
             dy1 == other.Max[2] - b.Min[2]
             dy2 == b.Max[2] - other.Min[2]
             dy  == minf(dy1, dy2)
             dz1 == other.Max[3] - b.Min[3]
             dz2 == b.Max[3] - other.Min[3]
             dz  == minf(dz1, dz2)
         IN  IF dx < dy /\ dx < dz
             THEN [hit |-> TRUE, pen |-> <<dx * signF(dx1 - dx2), 0, 0>>]
             ELSE IF dy < dx /\ dy < dz
             THEN [hit |-> TRUE, pen |-> <<0, dy * signF(dy1 - dy2), 0>>]
             ELSE [hit |-> TRUE, pen |-> <<0, 0, dz * signF(dz1 - dz2)>>]

---------------------------------------------------------------------------
\* Euclidean length (Vec3.Len), rounded down to a model unit.

\* The integer square root of n by bisection: lo * lo <= n < hi * hi.
RECURSIVE IsqrtBetween(_, _, _)
IsqrtBetween(n, lo, hi) ==
    IF hi - lo <= 1
    THEN lo
    ELSE LET mid == (lo + hi) \div 2
         IN  IF mid * mid <= n
             THEN IsqrtBetween(n, mid, hi)
             ELSE IsqrtBetween(n, lo, mid)

\* The length lies between the largest component m and 2m.
VLen(v) ==
    LET m == maxf(Abs(v[1]), maxf(Abs(v[2]), Abs(v[3])))
    IN  IsqrtBetween(v[1] * v[1] + v[2] * v[2] + v[3] * v[3], m, 2 * m + 1)

\* Vec3.Normalize, as a fixed-point vector of length Unit.
Normalize(v) == VMul(v, Unit, VLen(v))

---------------------------------------------------------------------------
\* RigidBody (package physics)

DefaultJumpSpeed == 3 * Unit

DefaultGravity == 12 * Unit

\* 0.7, in tenths
DefaultAirMovementSuppression == 7

DefaultFlyingSpeedMultipier == 2

DefaultTerminalVelocity == -10 * Unit

\* 0.001: the ground penetration below which Move does not snap
SnapEpsilon == 3

\* 0.2: the extra lift of the ground snap
SnapMargin == 600

\* 0.001: the horizontal movement below which Move does not sweep
HorizEpsilon == 3

\* the fixed number of horizontal sub-steps
HorizSteps == 4

\* A nil *Box is the empty sequence, a box b is <<b>>.
NilBox == <<>>

\* NewRigidBody.  OnPositionUpdated tells whether a callback is set (it is nil
\* after construction); PositionHistoryLength is the per-body tunable; appendLog is
\* a history variable: every position AppendHistory was called at, oldest
\* first.
NewRigidBody(position, mass, width, height, historyLength) ==
    [ OnPositionUpdated       |-> FALSE,
      Collider                |-> NilBox,
      PositionHistory         |-> <<>>,
      TripDistance            |-> 0,
      Position                |-> position,
      Velocity                |-> Zero3,
      Force                   |-> Zero3,
      Mass                    |-> mass,
      Width                   |-> width,
      Height                  |-> height,
      Flying                  |-> FALSE,
      Grounded                |-> FALSE,
      JumpSpeed               |-> DefaultJumpSpeed,
      Gravity                 |-> DefaultGravity,
      AirMovementSuppression  |-> DefaultAirMovementSuppression,
      FlyingSpeedMultipier    |-> DefaultFlyingSpeedMultipier,
      PositionHistoryLength   |-> historyLength,
      appendLog               |-> <<>> ]

\* RigidBody.UpdateCollider
UpdateCollider(r) ==
    [r EXCEPT !.Collider =
        << [ Min |-> VSub(r.Position, <<Quot(r.Width, 2), r.Height, Quot(r.Width, 2)>>),
             Max |-> VAdd(r.Position, <<Quot(r.Width, 2), 0, Quot(r.Width, 2)>>) ] >>]

\* RigidBody.UpdateColliderAtPosition
UpdateColliderAtPosition(r, position) ==
    [r EXCEPT !.Collider =
        << [ Min |-> VSub(position, <<Quot(r.Width, 2), r.Height, Quot(r.Width, 2)>>),
             Max |-> VAdd(position, <<Quot(r.Width, 2), 0, Quot(r.Width, 2)>>) ] >>]

\* Ground handling that keeps the vertical velocity on landing.
MoveGroundKeepsVelocity(r, ground) ==
    IF ground # NilBox
    THEN LET r2 == [r EXCEPT !.Grounded = TRUE]
         IN  IF r2.Collider # NilBox
             THEN LET res == IntersectionY(ground[1], r2.Collider[1])
                  IN  IF res.hit /\ res.depth > SnapEpsilon
                      THEN UpdateCollider(
                               [r2 EXCEPT !.Position =
                                    VAdd(@, <<0, res.depth + SnapMargin, 0>>)])
                      ELSE r2
             ELSE r2
    ELSE [r EXCEPT !.Grounded = FALSE]

\* Move, ground handling: the grounded flag, the landing reset of the
\* vertical velocity and the upward snap out of the ground box.
MoveGround(r, ground) ==
    IF ground # NilBox
    THEN LET r1 == IF ~r.Grounded
                   THEN [r EXCEPT !.Velocity = <<r.Velocity[1], 0, r.Velocity[3]>>]
                   ELSE r
             r2 == [r1 EXCEPT !.Grounded = TRUE]
         IN  IF r2.Collider # NilBox
             THEN LET res == IntersectionY(ground[1], r2.Collider[1])
                  IN  IF res.hit /\ res.depth > SnapEpsilon
                      THEN UpdateCollider(
                               [r2 EXCEPT !.Position =
                                    VAdd(@, <<0, res.depth + SnapMargin, 0>>)])
                      ELSE r2
             ELSE r2
    ELSE [r EXCEPT !.Grounded = FALSE]

\* Move, damping of the movement vector (air suppression, flying multiplier).
MoveDamped(r, movement) ==
    LET m1 == IF ~r.Grounded /\ ~r.Flying
              THEN VMul(movement, r.AirMovementSuppression, 10)
              ELSE movement
    IN  IF r.Flying THEN VMul(m1, r.FlyingSpeedMultipier, 1) ELSE m1

\* for _, wall := range walls { if b, _ := r.Collider.Intersection(wall); b ...
HasCollision(r, walls) ==
    \E k \in 1..Len(walls) : Intersection(r.Collider[1], walls[k]).hit

\* The vertical sub-step loop leaving velocity and flag alone on a collision.
RECURSIVE VerticalSweepKeepsVelocity(_, _, _, _)
VerticalSweepKeepsVelocity(r, stepMove, walls, left) ==
    IF left = 0
    THEN r
    ELSE LET tempPos == VAdd(r.Position, stepMove)
             r1      == UpdateColliderAtPosition(r, tempPos)
         IN  IF ~HasCollision(r1, walls)
             THEN VerticalSweepKeepsVelocity([r1 EXCEPT !.Position = tempPos],
                                             stepMove, walls, left - 1)
             ELSE r1

\* The vertical sub-step loop: `left` steps remain.
RECURSIVE VerticalSweep(_, _, _, _)
VerticalSweep(r, stepMove, walls, left) ==
    IF left = 0
    THEN r
    ELSE LET tempPos == VAdd(r.Position, stepMove)
             r1      == UpdateColliderAtPosition(r, tempPos)
         IN  IF ~HasCollision(r1, walls)
             THEN VerticalSweep([r1 EXCEPT !.Position = tempPos],
                                stepMove, walls, left - 1)
             ELSE [r1 EXCEPT !.Grounded = IF r1.Velocity[2] < 0 THEN TRUE ELSE @,
                             !.Velocity = <<@[1], 0, @[3]>>]

\* The number of vertical sub-steps taken as ceil(|dy| * 5.0).
VerticalStepsCeil(dy) == ((Abs(dy) * 5) + Unit - 1) \div Unit

\* The number of vertical sub-steps: int(|dy| * 5.0) + 1
VerticalSteps(dy) == ((Abs(dy) * 5) \div Unit) + 1

\* The vertical displacement taken from the movement vector for every body.
VerticalMoveFromMovement(r, movement) == <<0, movement[2], 0>>

\* The vertical displacement the sweep attempts.
VerticalMove(r, movement) ==
    IF ~r.Flying /\ ~r.Grounded
    THEN <<0, r.Velocity[2], 0>>
    ELSE IF r.Flying THEN <<0, movement[2], 0>> ELSE Zero3

\* The horizontal sub-step loop: `left` steps remain.
RECURSIVE HorizontalSweep(_, _, _, _)
HorizontalSweep(r, stepMove, walls, left) ==
    IF left = 0
    THEN r
    ELSE LET tempPos == VAdd(r.Position, stepMove)
             r1      == UpdateColliderAtPosition(r, tempPos)
         IN  IF ~HasCollision(r1, walls)
             THEN HorizontalSweep([r1 EXCEPT !.Position = tempPos],
                                  stepMove, walls, left - 1)
             ELSE r1

\* Move with a collider and a non-empty wall list: the vertical sweep, then
\* the horizontal sweep.
Sweeps(r, movement, walls) ==
    LET verticalMove == VerticalMove(r, movement)
        r1 == IF verticalMove[2] # 0
              THEN LET steps == VerticalSteps(verticalMove[2])
                   IN  VerticalSweep(r, VMul(verticalMove, 1, steps), walls, steps)
              ELSE r
        horizMove == <<movement[1], 0, movement[3]>>
    IN  IF horizMove[1] * horizMove[1] + horizMove[3] * horizMove[3]
             > HorizEpsilon * HorizEpsilon
        THEN HorizontalSweep(r1, VMul(horizMove, 1, HorizSteps), walls, HorizSteps)
        ELSE r1

\* MoveSwept without the collider rebuilt after the sweeps.
MoveSweptNoRebuild(r, movement, walls) == Sweeps(r, movement, walls)

\* The swept branch of Move: the sweeps, then the collider rebuilt at the
\* final position.
MoveSwept(r, movement, walls) == UpdateCollider(Sweeps(r, movement, walls))

\* The direct branch adding the vertical velocity for a flying body too.
MoveDirectAlwaysFalls(r, movement) ==
    UpdateCollider([r EXCEPT !.Position =
                        VAdd(VAdd(@, movement), <<0, r.Velocity[2], 0>>)])

\* Move without walls or without a collider: applied directly.
MoveDirect(r, movement) ==
    LET r1 == [r EXCEPT !.Position = VAdd(@, movement)]
        r2 == IF ~r1.Flying
              THEN [r1 EXCEPT !.Position = VAdd(@, <<0, r1.Velocity[2], 0>>)]
              ELSE r1
    IN  UpdateCollider(r2)

\* RigidBody.Move(movement, ground, ceiling, walls); ceiling is never read.
Move(r, movement, ground, ceiling, walls) ==
    LET r1 == MoveGround(r, ground)
        m  == MoveDamped(r1, movement)
    IN  IF r1.Collider # NilBox /\ Len(walls) > 0
        THEN MoveSwept(r1, m, walls)
        ELSE MoveDirect(r1, m)

\* Jump without the grounded test.
JumpAlways(r) ==
    [r EXCEPT !.Velocity = <<r.Velocity[1], r.JumpSpeed, r.Velocity[3]>>,
              !.Grounded = FALSE]

\* RigidBody.Jump
Jump(r) ==
    IF r.Grounded
    THEN [r EXCEPT !.Velocity = <<r.Velocity[1], r.JumpSpeed, r.Velocity[3]>>,
                   !.Grounded = FALSE]
    ELSE r

\* AppendHistory truncating at the head (dropping the entry just added)
\* instead of at the tail.
AppendHistoryDropHead(r) ==
    LET h == <<r.Position>> \o r.PositionHistory
    IN  [r EXCEPT !.PositionHistory =
                      IF Len(h) > r.PositionHistoryLength
                      THEN SubSeq(h, 2, Len(h))
                      ELSE h,
                  !.appendLog = Append(@, r.Position)]

\* RigidBody.AppendHistory
AppendHistory(r) ==
    LET h == <<r.Position>> \o r.PositionHistory
    IN  [r EXCEPT !.PositionHistory =
                      IF Len(h) > r.PositionHistoryLength
                      THEN SubSeq(h, 1, Len(h) - 1)
                      ELSE h,
                  !.appendLog = Append(@, r.Position)]

---------------------------------------------------------------------------
\* PhysicsEngine (package physics)

\* PhysicsEngine.update(body, delta) with delta = 1/deltaDen seconds
\* Stage mutants: gravity never applied, and the two clamps left out.
ApplyGravityOff(body) == body

ClampTerminalOff(body) == body

ClampGroundedOff(body) == body

\* Gravity is added to the accumulated force of a body that is neither
\* grounded nor flying.
ApplyGravity(body) ==
    IF ~body.Grounded /\ ~body.Flying
    THEN [body EXCEPT !.Force =
              VAdd(@, <<0, body.Mass * (-body.Gravity), 0>>)]
    ELSE body

\* Vertical velocity is limited from below by the terminal velocity.
ClampTerminal(body) ==
    IF body.Velocity[2] < DefaultTerminalVelocity
    THEN [body EXCEPT !.Velocity = <<@[1], DefaultTerminalVelocity, @[3]>>]
    ELSE body

\* A grounded body does not keep a downward velocity.
ClampGrounded(body) ==
    IF body.Grounded /\ body.Velocity[2] < 0
    THEN [body EXCEPT !.Velocity = <<@[1], 0, @[3]>>]
    ELSE body

\* Stage mutants: the history appended after the position changed, the trip
\* distance never reset, and the force accumulator kept.
IntegrateThenAppend(body, dpos) ==
    UpdateCollider(AppendHistory([body EXCEPT !.Position = VAdd(@, dpos)]))

TravelledNoReset(body, dpos) ==
    [body EXCEPT !.TripDistance = @ + VLen(dpos)]

ClearForceOff(body) == body

\* The position before the step goes to the history, then the position is
\* advanced by dpos and the collider rebuilt.
Integrate(body, dpos) ==
    LET b5 == AppendHistory(body)
        b6 == [b5 EXCEPT !.Position = VAdd(@, dpos)]
    IN  UpdateCollider(b6)

\* The trip distance grows by the length of dpos and is reset by a step of
\* length zero.
Travelled(body, dpos) ==
    LET b8 == [body EXCEPT !.TripDistance = @ + VLen(dpos)]
    IN  IF VLen(dpos) = 0 /\ b8.TripDistance > 0
        THEN [b8 EXCEPT !.TripDistance = 0]
        ELSE b8

\* The force accumulator is emptied for the next frame.
ClearForce(body) == [body EXCEPT !.Force = Zero3]

update(body, deltaDen) ==
    LET b1 == ApplyGravity(body)
        acc == VMul(b1.Force, 1, b1.Mass)
        b2 == [b1 EXCEPT !.Velocity = VAdd(@, VMul(acc, 1, deltaDen))]
        b3 == ClampTerminal(b2)
        b4 == ClampGrounded(b3)
        dpos == VMul(b4.Velocity, 1, deltaDen)
        b7 == Integrate(b4, dpos)
        b9 == Travelled(b7, dpos)
    IN  ClearForce(b9)

\* The registry is a map keyed by the body, used as a set.
UnregisterKeeps(regs, body) == regs

Register(regs, body) == regs \cup {body}

Unregister(regs, body) == regs \ {body}

\* The bodies Tick hands to their OnPositionUpdated callback, in order: the
\* registered body as update left it, if it has a callback.
TickCallbacks(regs, bodyId, body, deltaDen) ==
    IF bodyId \in regs /\ update(body, deltaDen).OnPositionUpdated
    THEN <<update(body, deltaDen)>>
    ELSE <<>>

\* Tick updates every registered body; bodyId names the body held in `body`.
Tick(regs, bodyId, body, deltaDen) ==
    IF bodyId \in regs THEN update(body, deltaDen) ELSE body

---------------------------------------------------------------------------
\* MovementController (physics/movement.go)

NewMovementController(speed, jumpForce) ==
    [Speed |-> speed, JumpForce |-> jumpForce, Flying |-> FALSE]

\* The movement vector scaled by the speed without being normalised.
CtlMoveUnnormalised(m, forward, right, up, viewVector, rightVector) ==
    LET fv0 == <<viewVector[1], 0, viewVector[3]>>
        flatViewVector == IF VLen(fv0) > 0 THEN Normalize(fv0) ELSE fv0
        fr0 == <<rightVector[1], 0, rightVector[3]>>
        flatRightVector == IF VLen(fr0) > 0 THEN Normalize(fr0) ELSE fr0
        m0 == VAdd(VMul(flatViewVector, forward, Unit),
                   VMul(flatRightVector, right, Unit))
        m1 == IF m.Flying THEN VAdd(m0, <<0, up, 0>>) ELSE m0
    IN  VMul(m1, m.Speed, Unit)

\* MovementController.Move: the movement vector; scalars and direction
\* vectors are fixed point (1.0 = Unit).
CtlMove(m, forward, right, up, viewVector, rightVector) ==
    LET fv0 == <<viewVector[1], 0, viewVector[3]>>
        flatViewVector == IF VLen(fv0) > 0 THEN Normalize(fv0) ELSE fv0
        fr0 == <<rightVector[1], 0, rightVector[3]>>
        flatRightVector == IF VLen(fr0) > 0 THEN Normalize(fr0) ELSE fr0
        m0 == VAdd(VMul(flatViewVector, forward, Unit),
                   VMul(flatRightVector, right, Unit))
        m1 == IF m.Flying THEN VAdd(m0, <<0, up, 0>>) ELSE m0
    IN  IF VLen(m1) > 0 THEN VMul(Normalize(m1), m.Speed, Unit) ELSE m1

\* MovementController.Jump: the body after the call
CtlJump(r) == IF r.Grounded THEN Jump(r) ELSE r

\* Each of the two flags flipped on its own.
ToggleFlightEach(m, r) ==
    <<[m EXCEPT !.Flying = ~m.Flying], [r EXCEPT !.Flying = ~r.Flying]>>

\* MovementController.ToggleFlight: <<controller, body>> after the call
ToggleFlight(m, r) ==
    LET m1 == [m EXCEPT !.Flying = ~m.Flying]
    IN  <<m1, [r EXCEPT !.Flying = m1.Flying]>>

\* Update with the history appended before the position is changed.
CtlUpdateHistoryFirst(m, r, forward, right, up, viewVector, rightVector) ==
    LET movement == CtlMove(m, forward, right, up, viewVector, rightVector)
        r1 == AppendHistory(r)
    IN  UpdateCollider([r1 EXCEPT !.Position = VAdd(@, movement)])

\* MovementController.Update: the body after the call
CtlUpdate(m, r, forward, right, up, viewVector, rightVector) ==
    LET movement == CtlMove(m, forward, right, up, viewVector, rightVector)
        r1 == [r EXCEPT !.Position = VAdd(@, movement)]
    IN  UpdateCollider(AppendHistory(r1))

\* MovementController.SetPosition: the body after the call
SetPosition(r, pos) ==
    UpdateCollider(AppendHistory([r EXCEPT !.Position = pos]))

---------------------------------------------------------------------------
\* Player (game/player.go): the body and controller the game creates

DefaultPlayerHeight == (18 * Unit) \div 10

DefaultPlayerWidth == (6 * Unit) \div 10

DefaultPlayerMass == 70

DefaultPlayerSpeed == 1 * Unit

DefaultJumpForce == 4 * Unit

\* NewPlayer: the body, with its JumpSpeed overridden
NewPlayerBody(position, historyLength) ==
    [NewRigidBody(position, DefaultPlayerMass, DefaultPlayerWidth,
                  DefaultPlayerHeight, historyLength)
        EXCEPT !.JumpSpeed = DefaultJumpForce]

\* NewPlayer: the controller
NewPlayerController == NewMovementController(DefaultPlayerSpeed, DefaultJumpForce)

\* The body moved along the flattened front vector by the amount itself.
MoveForwardScaled(m, r, amount, front, right) ==
    LET f0 == <<front[1], 0, front[3]>>
        forward == IF VLen(f0) > 0 THEN Normalize(f0) ELSE f0
        movement == CtlMoveUnnormalised(m, amount, 0, 0, forward, right)
        r1 == [r EXCEPT !.Position = VAdd(@, movement)]
    IN  UpdateCollider(AppendHistory(r1))

\* Player.MoveForward(amount): the body after the call; front and right are
\* the camera's vectors.
MoveForward(m, r, amount, front, right) ==
    LET f0 == <<front[1], 0, front[3]>>
        forward == IF VLen(f0) > 0 THEN Normalize(f0) ELSE f0
    IN  CtlUpdate(m, r, amount, 0, 0, forward, right)

\* Player.MoveRight(amount): the body after the call.
MoveRight(m, r, amount, front, right) ==
    CtlUpdate(m, r, 0, amount, 0, front, right)

\* Game.UpdatePhysics(delta, forward, right, up) with delta = 1/deltaDen: the
\* body after the call.  Player.Update, called last, writes the player's
\* OnGround flag and the camera position and no field of the body.
UpdatePhysics(m, r, deltaDen, forward, right, front, rightVector) ==
    LET r1 == IF forward # 0
              THEN MoveForward(m, r, Quot(forward, deltaDen), front, rightVector)
              ELSE r
    IN  IF right # 0
        THEN MoveRight(m, r1, Quot(right, deltaDen), front, rightVector)
        ELSE r1

\* The one body of the model, as the engine's registry knows it.
BodyId == "player"

---------------------------------------------------------------------------
\* World and Chunk (package world)
\*
\* World coordinates are in half blocks (one block is Block model units), so
\* that the truncation int(x) of the code is not the identity.  A chunk's
\* block array is kept sparse: Blocks holds the cells that were written, every
\* other cell is as NewChunk made it (inactive, empty type).

Block == 2

ChunkWidth == 16

ChunkHeight == 256

\* int(x) of a float32: truncation toward zero, in whole blocks.
IntOf(x) == Quot(x, Block)

\* float32(n) of a whole number of blocks.
FloatOf(n) == n * Block

\* Go's a % b: the remainder has the sign of a.
GoRem(a, b) == a - b * Quot(a, b)

NilChunk == <<>>

NilBlock == <<>>

\* NewWorld: no chunks.
NewWorld == [chunks |-> <<>>]

\* GetChunkKey: "%d_%d" of int(x) and int(z), kept as the pair it encodes.
GetChunkKey(pos) == <<IntOf(pos[1]), IntOf(pos[3])>>

\* PositionToChunkCoords
PositionToChunkCoords(pos) ==
    <<FloatOf(Quot(IntOf(pos[1]), ChunkWidth) * ChunkWidth),
      0,
      FloatOf(Quot(IntOf(pos[3]), ChunkWidth) * ChunkWidth)>>

\* NewChunk
NewChunk(pos) == [Position |-> pos, Blocks |-> <<>>]

\* World.AddChunk: the chunk map after the call
AddChunk(w, chunk) ==
    LET key == GetChunkKey(chunk.Position)
    IN  [w EXCEPT !.chunks =
            [k \in (DOMAIN w.chunks) \cup {key} |->
                IF k = key THEN chunk ELSE w.chunks[k]]]

\* World.GetChunk: <<chunk>>, or NilChunk when the map has no such key
GetChunk(w, pos) ==
    LET key == GetChunkKey(PositionToChunkCoords(pos))
    IN  IF key \in DOMAIN w.chunks THEN <<w.chunks[key]>> ELSE NilChunk

\* The cell (x, y, z) lies inside a chunk's block array.
InChunk(x, y, z) ==
    /\ x >= 0 /\ x < ChunkWidth
    /\ y >= 0 /\ y < ChunkHeight
    /\ z >= 0 /\ z < ChunkWidth

\* Chunk.GetBlock: <<block>>, or NilBlock outside the array
ChunkGetBlock(c, x, y, z) ==
    IF ~InChunk(x, y, z)
    THEN NilBlock
    ELSE <<[Active    |-> IF <<x, y, z>> \in DOMAIN c.Blocks
                          THEN c.Blocks[<<x, y, z>>].Active ELSE FALSE,
            BlockType |-> IF <<x, y, z>> \in DOMAIN c.Blocks
                          THEN c.Blocks[<<x, y, z>>].BlockType ELSE "",
            Position  |-> VAdd(c.Position,
                               <<FloatOf(x), FloatOf(y), FloatOf(z)>>)]>>

\* Chunk.SetBlock: the chunk after the call
ChunkSetBlock(c, x, y, z, blockType, active) ==
    IF ~InChunk(x, y, z)
    THEN c
    ELSE [c EXCEPT !.Blocks =
            [p \in (DOMAIN c.Blocks) \cup {<<x, y, z>>} |->
                IF p = <<x, y, z>>
                THEN [Active |-> active, BlockType |-> blockType]
                ELSE c.Blocks[p]]]

\* Chunk.GetBlockFromWorldPos
GetBlockFromWorldPos(c, pos) ==
    ChunkGetBlock(c, IntOf(pos[1] - c.Position[1]),
                     IntOf(pos[2] - c.Position[2]),
                     IntOf(pos[3] - c.Position[3]))

\* World.GetBlock: <<block>> or NilBlock
GetBlock(w, pos) ==
    LET chunk == GetChunk(w, pos)
    IN  IF chunk = NilChunk THEN NilBlock
        ELSE GetBlockFromWorldPos(chunk[1], pos)

\* World.SetBlock: the world after the call
SetBlock(w, pos, blockType, active) ==
    LET found == GetChunk(w, pos)
        chunk == IF found = NilChunk
                 THEN NewChunk(PositionToChunkCoords(pos))
                 ELSE found[1]
        w1 == IF found = NilChunk THEN AddChunk(w, chunk) ELSE w
        x0 == GoRem(IntOf(pos[1]), ChunkWidth)
        z0 == GoRem(IntOf(pos[3]), ChunkWidth)
        localX == IF x0 < 0 THEN x0 + ChunkWidth ELSE x0
        localY == IntOf(pos[2])
        localZ == IF z0 < 0 THEN z0 + ChunkWidth ELSE z0
    IN  AddChunk(w1, ChunkSetBlock(chunk, localX, localY, localZ,
                                   blockType, active))

---------------------------------------------------------------------------
\* Window (package window): key state and Debounce
\*
\* pressed is GLFW's key state (the keys GetKey reports as Press, every
\* other key is Release), debounce the keys whose entry in the debounce map
\* is true.  The other fields record the last call: the key, what Debounce
\* returned, and before and after it the keys for which Debounce has
\* returned true with no later Debounce call that saw the key released
\* (held), or with no physical release since (fired).

NewWindow ==
    [pressed |-> {}, debounce |-> {},
     op |-> "none", key |-> "", ret |-> FALSE,
     held |-> {}, heldWas |-> {}, fired |-> {}, firedWas |-> {}]

\* Window.IsPressed
IsPressed(w, k) == k \in w.pressed

\* Window.IsReleased
IsReleased(w, k) == k \notin w.pressed

\* Debounce that latches nothing.
DebounceNoLatch(w, k) == <<w, IsPressed(w, k)>>

\* Window.Debounce: <<window, returned value>>
Debounce(w, k) ==
    LET debounce == k \in w.debounce
    IN  IF IsPressed(w, k) /\ ~debounce
        THEN <<[w EXCEPT !.debounce = @ \cup {k}], TRUE>>
        ELSE IF IsReleased(w, k)
             THEN <<[w EXCEPT !.debounce = @ \ {k}], FALSE>>
             ELSE <<w, FALSE>>

---------------------------------------------------------------------------
\* Bounds and inputs

\* operations per run
MaxOps == 3

\* the history cap (PositionHistoryLength) of the body
HistoryCap == 2

\* box coordinates range over 0..MaxCoord
MaxCoord == 2

\* delta = 1/60 s
DeltaDens == {60}

\* The ground top is at y = 1.  A thick and a thin ground box.
GroundThick == NewBox(<<-2 * Unit, 0, -2 * Unit>>, <<2 * Unit, Unit, 2 * Unit>>)

GroundThin == NewBox(<<-2 * Unit, (9 * Unit) \div 10, -2 * Unit>>,
                     <<2 * Unit, Unit, 2 * Unit>>)

Grounds == {NilBox, <<GroundThick>>, <<GroundThin>>}

\* A wall one unit to the +x side and a floor slab.
WallX == NewBox(<<Unit, 0, -2 * Unit>>, <<2 * Unit, 5 * Unit, 2 * Unit>>)

WallFloor == NewBox(<<-2 * Unit, 0, -2 * Unit>>, <<2 * Unit, Unit, 2 * Unit>>)

\* A corridor one unit wide around x = 0 (the body, 0.6 wide, has 0.2 of
\* clearance on each side) under a ceiling slab whose underside is at y = 2.8.
WallLeft == NewBox(<<-2 * Unit, 0, -2 * Unit>>, <<-Unit \div 2, 5 * Unit, 2 * Unit>>)

WallRight == NewBox(<<Unit \div 2, 0, -2 * Unit>>, <<2 * Unit, 5 * Unit, 2 * Unit>>)

WallCeiling == NewBox(<<-2 * Unit, (28 * Unit) \div 10, -2 * Unit>>,
                      <<2 * Unit, 4 * Unit, 2 * Unit>>)

Corridor == <<WallLeft, WallRight, WallCeiling>>

WallLists == {<<>>, <<WallX, WallFloor>>, Corridor}

Movements == {Zero3, <<2 * Unit, 0, 0>>, <<0, -Unit, 0>>}

\* The body starts with its collider bottom 0.2 above the ground top.
StartPos == <<0, 3 * Unit, 0>>

\* Collider bottom 0.3 below the ground top; and 1.6 below it, with the
\* collider top only 0.2 above the ground top.
PosSunk == <<0, (25 * Unit) \div 10, 0>>

PosDeep == <<0, (12 * Unit) \div 10, 0>>

Positions == {PosSunk, PosDeep}

\* Camera vectors: looking along -z, right along +x.
ViewVector == <<0, 0, -Unit>>

RightVector == <<Unit, 0, 0>>

\* (forward, right, up) inputs of the controller
Inputs == {<<Unit, 0, 0>>, <<Unit, Unit, Unit>>}

\* A force a caller adds to body.Force: one tick of 1/60 s turns it into a
\* velocity of 1 along +x.
PushForce == <<DefaultPlayerMass * 60 * Unit, 0, 0>>

\* The force accumulated on the body when the run starts.
InitForces == {Zero3, PushForce}

\* A downward push: one tick of 1/60 s turns it into 1 unit/s of downward speed.
SinkForce == <<0, -(DefaultPlayerMass * 60 * Unit), 0>>

Forces == {PushForce, SinkForce}

IntervalsOf(S) == {p \in S \X S : p[1] <= p[2]}

\* every box with min <= max component-wise over 0..MaxCoord
Boxes ==
    {NewBox(<<ix[1], iy[1], iz[1]>>, <<ix[2], iy[2], iz[2]>>) :
        ix \in IntervalsOf(0..MaxCoord),
        iy \in IntervalsOf(0..MaxCoord),
        iz \in IntervalsOf(0..MaxCoord)}

NoRet == [hit |-> FALSE, pen |-> Zero3, depth |-> 0]

BxIdle == [this |-> NewBox(Zero3, Zero3), other |-> NewBox(Zero3, Zero3),
           op |-> "none", ret |-> NoRet]

\* The record of the last call: its name and arguments, the registry and the
\* controller as they were when it was made, the vector it returned, the
\* bodies its callbacks were handed (as they were at that moment), and for
\* ToggleFlight the number of consecutive toggles ending with it and the
\* controller's flag before the first of them.
NoCall == [op |-> "none", movement |-> Zero3, ground |-> NilBox, walls |-> <<>>,
           pos |-> Zero3, den |-> 0, input |-> Zero3, view |-> Zero3,
           side |-> Zero3,
           force |-> Zero3, ret |-> Zero3, regs |-> {}, ctlWas |-> NewPlayerController,
           toggles |-> 0, flag0 |-> FALSE, seen |-> <<>>,
           blockType |-> "", active |-> FALSE, chunksWas |-> <<>>]

---------------------------------------------------------------------------
\* The body, the engine and the controller under any sequence of calls

\* Game.CreatePlayer: the player's body and controller, the body registered;
\* a caller may already have accumulated a force on it.
InitBody ==
    /\ bx = BxIdle
    /\ \E f \in InitForces :
           rb = [NewPlayerBody(StartPos, HistoryCap) EXCEPT !.Force = f]
    /\ ctl = NewPlayerController
    /\ registrations = {BodyId}
    /\ pre = rb
    /\ call = NoCall
    /\ nops = 0
    /\ world = NewWorld
    /\ win = NewWindow

Called(c) ==
    /\ nops < MaxOps
    /\ nops' = nops + 1
    /\ pre' = rb
    /\ call' = [c EXCEPT !.regs = registrations, !.ctlWas = ctl]
    /\ UNCHANGED <<bx, world, win>>

\* PhysicsEngine.Register
DoRegister ==
    /\ Called([NoCall EXCEPT !.op = "Register"])
    /\ registrations' = Register(registrations, BodyId)
    /\ UNCHANGED <<rb, ctl>>

\* PhysicsEngine.Unregister
DoUnregister ==
    /\ Called([NoCall EXCEPT !.op = "Unregister"])
    /\ registrations' = Unregister(registrations, BodyId)
    /\ UNCHANGED <<rb, ctl>>

\* A caller accumulates a force on the body (body.Force is its input).
DoApplyForce ==
    \E force \in Forces :
        /\ Called([NoCall EXCEPT !.op = "ApplyForce", !.force = force])
        /\ rb' = [rb EXCEPT !.Force = VAdd(@, force)]
        /\ UNCHANGED <<ctl, registrations>>

\* A caller writes the body's exported Flying field directly.
DoSetFlying ==
    \E flying \in BOOLEAN :
        /\ Called([NoCall EXCEPT !.op = "SetFlying"])
        /\ rb' = [rb EXCEPT !.Flying = flying]
        /\ UNCHANGED <<ctl, registrations>>

\* A caller sets the body's OnPositionUpdated callback, or clears it.
DoSetCallback ==
    /\ Called([NoCall EXCEPT !.op = "SetCallback"])
    /\ rb' = [rb EXCEPT !.OnPositionUpdated = ~@]
    /\ UNCHANGED <<ctl, registrations>>

\* PhysicsEngine.Tick
DoTick ==
    \E den \in DeltaDens :
        /\ Called([NoCall EXCEPT !.op = "Tick", !.den = den,
                                 !.seen = TickCallbacks(registrations, BodyId,
                                                        rb, den)])
        /\ rb' = Tick(registrations, BodyId, rb, den)
        /\ UNCHANGED <<ctl, registrations>>

\* RigidBody.Move
DoMove ==
    \E movement \in Movements, ground \in Grounds, walls \in WallLists :
        /\ Called([NoCall EXCEPT !.op = "Move", !.movement = movement,
                                 !.ground = ground, !.walls = walls])
        /\ rb' = Move(rb, movement, ground, NilBox, walls)
        /\ UNCHANGED <<ctl, registrations>>

\* RigidBody.Jump
DoJump ==
    /\ Called([NoCall EXCEPT !.op = "Jump"])
    /\ rb' = Jump(rb)
    /\ UNCHANGED <<ctl, registrations>>

\* MovementController.Jump
DoCtlJump ==
    /\ Called([NoCall EXCEPT !.op = "CtlJump"])
    /\ rb' = CtlJump(rb)
    /\ UNCHANGED <<ctl, registrations>>

\* RigidBody.AppendHistory
DoAppendHistory ==
    /\ Called([NoCall EXCEPT !.op = "AppendHistory"])
    /\ rb' = AppendHistory(rb)
    /\ UNCHANGED <<ctl, registrations>>

\* MovementController.ToggleFlight
DoToggleFlight ==
    /\ Called([NoCall EXCEPT !.op = "ToggleFlight",
                             !.toggles = IF call.op = "ToggleFlight"
                                         THEN call.toggles + 1 ELSE 1,
                             !.flag0 = IF call.op = "ToggleFlight"
                                       THEN call.flag0 ELSE ctl.Flying])
    /\ ctl' = ToggleFlight(ctl, rb)[1]
    /\ rb' = ToggleFlight(ctl, rb)[2]
    /\ UNCHANGED registrations

\* MovementController.Update
DoUpdate ==
    \E input \in Inputs :
        /\ Called([NoCall EXCEPT !.op = "Update", !.input = input])
        /\ rb' = CtlUpdate(ctl, rb, input[1], input[2], input[3],
                           ViewVector, RightVector)
        /\ UNCHANGED <<ctl, registrations>>

\* MovementController.SetPosition
DoSetPosition ==
    \E pos \in Positions :
        /\ Called([NoCall EXCEPT !.op = "SetPosition", !.pos = pos])
        /\ rb' = SetPosition(rb, pos)
        /\ UNCHANGED <<ctl, registrations>>

Next ==
    \/ DoRegister
    \/ DoUnregister
    \/ DoApplyForce
    \/ DoSetFlying
    \/ DoSetCallback
    \/ DoTick
    \/ DoMove
    \/ DoJump
    \/ DoCtlJump
    \/ DoAppendHistory
    \/ DoToggleFlight
    \/ DoUpdate
    \/ DoSetPosition

Spec == InitBody /\ [][Next]_vars

---------------------------------------------------------------------------
\* The box tests applied to every pair of boxes

InitBox ==
    /\ \E a \in Boxes, b \in Boxes :
           bx = [this |-> a, other |-> b, op |-> "none", ret |-> NoRet]
    /\ rb = NewPlayerBody(StartPos, HistoryCap)
    /\ ctl = NewPlayerController
    /\ registrations = {}
    /\ pre = rb
    /\ call = NoCall
    /\ nops = 0
    /\ world = NewWorld
    /\ win = NewWindow

\* this.Intersection(other)
BoxIntersection ==
    /\ bx.op = "none"
    /\ LET res == Intersection(bx.this, bx.other)
       IN  bx' = [bx EXCEPT !.op = "Intersection",
                            !.ret = [NoRet EXCEPT !.hit = res.hit, !.pen = res.pen]]
    /\ UNCHANGED <<rb, ctl, registrations, pre, call, nops, world, win>>

\* this.IntersectionXZ(other)
BoxIntersectionXZ ==
    /\ bx.op = "none"
    /\ LET res == IntersectionXZ(bx.this, bx.other)
       IN  bx' = [bx EXCEPT !.op = "IntersectionXZ",
                            !.ret = [NoRet EXCEPT !.hit = res.hit, !.pen = res.pen]]
    /\ UNCHANGED <<rb, ctl, registrations, pre, call, nops, world, win>>

\* this.IntersectionY(other)
BoxIntersectionY ==
    /\ bx.op = "none"
    /\ LET res == IntersectionY(bx.this, bx.other)
       IN  bx' = [bx EXCEPT !.op = "IntersectionY",
                            !.ret = [NoRet EXCEPT !.hit = res.hit, !.depth = res.depth]]
    /\ UNCHANGED <<rb, ctl, registrations, pre, call, nops, world, win>>

NextBox == BoxIntersection \/ BoxIntersectionXZ \/ BoxIntersectionY

SpecBox == InitBox /\ [][NextBox]_vars

---------------------------------------------------------------------------
\* A body dropped from rest and ticked at a constant frame rate

MaxTicks == 60

\* The frame rates of a run: dt = 1/den seconds.
FallDens == {60, 30, 10, 2}

DropPos == <<0, 10 * Unit, 0>>

InitFall ==
    /\ bx = BxIdle
    /\ rb = NewRigidBody(DropPos, DefaultPlayerMass, DefaultPlayerWidth,
                         DefaultPlayerHeight, HistoryCap)
    /\ ctl = NewPlayerController
    /\ registrations = Register({}, BodyId)
    /\ pre = rb
    /\ call = NoCall
    /\ nops = 0
    /\ world = NewWorld
    /\ win = NewWindow

\* PhysicsEngine.Tick, every tick of a run with the dt of its first tick.
FallTick ==
    \E den \in FallDens :
        /\ call.op = "Tick" => call.den = den
        /\ nops < MaxTicks
        /\ nops' = nops + 1
        /\ pre' = rb
        /\ call' = [NoCall EXCEPT !.op = "Tick", !.den = den,
                                  !.regs = registrations, !.ctlWas = ctl,
                                  !.seen = TickCallbacks(registrations, BodyId,
                                                         rb, den)]
        /\ rb' = Tick(registrations, BodyId, rb, den)
        /\ UNCHANGED <<bx, ctl, registrations, world, win>>

NextFall == FallTick

SpecFall == InitFall /\ [][NextFall]_vars

---------------------------------------------------------------------------
\* MovementController.Move applied to every input of a small grid

AxisInputs == {-Unit, 0, Unit}

Speeds == {DefaultPlayerSpeed, 2 * DefaultPlayerSpeed}

\* Camera directions: level, pitched down, and turned about the Y axis.
Looks ==
    {[view |-> <<0, 0, -Unit>>, side |-> <<Unit, 0, 0>>],
     [view |-> <<0, -((6 * Unit) \div 10), -((8 * Unit) \div 10)>>,
      side |-> <<Unit, 0, 0>>],
     [view |-> <<(6 * Unit) \div 10, 0, -((8 * Unit) \div 10)>>,
      side |-> <<(8 * Unit) \div 10, 0, (6 * Unit) \div 10>>]}

InitCtlMove ==
    /\ bx = BxIdle
    /\ \E flying \in BOOLEAN, speed \in Speeds :
           /\ ctl = [NewMovementController(speed, DefaultJumpForce)
                        EXCEPT !.Flying = flying]
           /\ rb = [NewPlayerBody(StartPos, HistoryCap) EXCEPT !.Flying = flying]
    /\ registrations = Register({}, BodyId)
    /\ pre = rb
    /\ call = NoCall
    /\ nops = 0
    /\ world = NewWorld
    /\ win = NewWindow

\* MovementController.Move: the vector is returned, nothing is assigned.
DoCtlMove ==
    \E forward \in AxisInputs, right \in AxisInputs, up \in AxisInputs,
       look \in Looks :
        /\ call.op = "none"
        /\ nops' = nops + 1
        /\ pre' = rb
        /\ call' = [NoCall EXCEPT
                        !.op = "CtlMove", !.input = <<forward, right, up>>,
                        !.view = look.view, !.side = look.side,
                        !.ret = CtlMove(ctl, forward, right, up,
                                        look.view, look.side),
                        !.regs = registrations, !.ctlWas = ctl]
        /\ UNCHANGED <<bx, rb, ctl, registrations, world, win>>

NextCtlMove == DoCtlMove

SpecCtlMove == InitCtlMove /\ [][NextCtlMove]_vars

---------------------------------------------------------------------------
\* Move between walls for a body that already has a vertical velocity

\* Vertical velocities: 0.1, 0.2, 0.3, 0.5 and 1 unit down, 0.3 up.
SweepVels ==
    {-(Unit \div 10), -(Unit \div 5), -((3 * Unit) \div 10), -(Unit \div 2),
     -Unit, (3 * Unit) \div 10}

PosHigh == <<0, (34 * Unit) \div 10, 0>>

SweepPositions == {StartPos, PosHigh, PosSunk}

SweepMovements == {Zero3, <<0, -(Unit \div 2), 0>>, <<Unit, -(Unit \div 4), 0>>}

InitSweep ==
    /\ bx = BxIdle
    /\ \E flying \in BOOLEAN, vy \in SweepVels, pos \in SweepPositions :
           /\ ctl = [NewPlayerController EXCEPT !.Flying = flying]
           /\ rb = UpdateCollider([NewPlayerBody(pos, HistoryCap) EXCEPT
                                       !.Velocity = <<0, vy, 0>>,
                                       !.Flying = flying])
    /\ registrations = Register({}, BodyId)
    /\ pre = rb
    /\ call = NoCall
    /\ nops = 0
    /\ world = NewWorld
    /\ win = NewWindow

\* RigidBody.Move with no ground box
SweepMove ==
    \E movement \in SweepMovements, walls \in WallLists :
        /\ Called([NoCall EXCEPT !.op = "Move", !.movement = movement,
                                 !.walls = walls])
        /\ rb' = Move(rb, movement, NilBox, NilBox, walls)
        /\ UNCHANGED <<ctl, registrations>>

NextSweep == SweepMove

SpecSweep == InitSweep /\ [][NextSweep]_vars

---------------------------------------------------------------------------
\* The position history while its cap is retuned

MaxHistoryOps == 4

\* The values a caller gives to PositionHistoryLength.
HistoryLengths == 1..(HistoryCap + 1)

\* One more call of a run of at most MaxHistoryOps calls.
HistoryCalled(c) ==
    /\ nops < MaxHistoryOps
    /\ nops' = nops + 1
    /\ pre' = rb
    /\ call' = [c EXCEPT !.regs = registrations, !.ctlWas = ctl]
    /\ UNCHANGED <<bx, ctl, registrations, world, win>>

\* A caller writes the body's exported PositionHistoryLength field.
HistorySetLength ==
    \E length \in HistoryLengths :
        /\ HistoryCalled([NoCall EXCEPT !.op = "SetHistoryLength"])
        /\ rb' = [rb EXCEPT !.PositionHistoryLength = length]

\* PhysicsEngine.Tick
HistoryTick ==
    \E den \in DeltaDens :
        /\ HistoryCalled([NoCall EXCEPT !.op = "Tick", !.den = den,
                                        !.seen = TickCallbacks(registrations,
                                                               BodyId, rb, den)])
        /\ rb' = Tick(registrations, BodyId, rb, den)

\* MovementController.Update
HistoryUpdate ==
    \E input \in Inputs :
        /\ HistoryCalled([NoCall EXCEPT !.op = "Update", !.input = input])
        /\ rb' = CtlUpdate(ctl, rb, input[1], input[2], input[3],
                           ViewVector, RightVector)

\* MovementController.SetPosition
HistorySetPosition ==
    \E pos \in Positions :
        /\ HistoryCalled([NoCall EXCEPT !.op = "SetPosition", !.pos = pos])
        /\ rb' = SetPosition(rb, pos)

\* RigidBody.AppendHistory
HistoryAppend ==
    /\ HistoryCalled([NoCall EXCEPT !.op = "AppendHistory"])
    /\ rb' = AppendHistory(rb)

NextHistory ==
    \/ HistorySetLength
    \/ HistoryTick
    \/ HistoryUpdate
    \/ HistorySetPosition
    \/ HistoryAppend

SpecHistory == InitBody /\ [][NextHistory]_vars

---------------------------------------------------------------------------
\* The player walked by the game loop, the camera held still

MaxWalkOps == 2

\* Frame times of the game loop: dt = 1/den seconds.
WalkDens == {60, 30}

\* Amounts handed to MoveForward and MoveRight: a whole unit and a frame's
\* worth (1/60), forward and backward.
Amounts == {Unit, -Unit, Unit \div 60, -(Unit \div 60)}

InitWalk ==
    /\ bx = BxIdle
    /\ \E flying \in BOOLEAN :
           /\ ctl = [NewPlayerController EXCEPT !.Flying = flying]
           /\ rb = [NewPlayerBody(StartPos, HistoryCap) EXCEPT !.Flying = flying]
    /\ registrations = Register({}, BodyId)
    /\ pre = rb
    /\ \E look \in Looks :
           call = [NoCall EXCEPT !.view = look.view, !.side = look.side]
    /\ nops = 0
    /\ world = NewWorld
    /\ win = NewWindow

\* One more call of a walk of at most MaxWalkOps calls; the camera's front
\* (view) and right (side) vectors stay as they are.
WalkCalled(c) ==
    /\ nops < MaxWalkOps
    /\ nops' = nops + 1
    /\ pre' = rb
    /\ call' = [c EXCEPT !.view = call.view, !.side = call.side,
                         !.regs = registrations, !.ctlWas = ctl]
    /\ UNCHANGED <<bx, ctl, registrations, world, win>>

\* Player.MoveForward
WalkForward ==
    \E amount \in Amounts :
        /\ WalkCalled([NoCall EXCEPT !.op = "MoveForward",
                                     !.input = <<amount, 0, 0>>])
        /\ rb' = MoveForward(ctl, rb, amount, call.view, call.side)

\* Player.MoveRight
WalkRight ==
    \E amount \in Amounts :
        /\ WalkCalled([NoCall EXCEPT !.op = "MoveRight",
                                     !.input = <<0, amount, 0>>])
        /\ rb' = MoveRight(ctl, rb, amount, call.view, call.side)

\* Game.UpdatePhysics
WalkUpdatePhysics ==
    \E den \in WalkDens, forward \in AxisInputs, right \in AxisInputs :
        /\ WalkCalled([NoCall EXCEPT !.op = "UpdatePhysics", !.den = den,
                                     !.input = <<forward, right, 0>>])
        /\ rb' = UpdatePhysics(ctl, rb, den, forward, right,
                               call.view, call.side)

NextWalk == WalkForward \/ WalkRight \/ WalkUpdatePhysics

SpecWalk == InitWalk /\ [][NextWalk]_vars

---------------------------------------------------------------------------
\* Blocks set and read by world position

MaxWorldOps == 2

\* World x coordinates: -17, -16, -1, 0, 0.5 and 16 blocks.
WorldXs == {FloatOf(-17), FloatOf(-16), FloatOf(-1), 0, 1, FloatOf(16)}

\* World y coordinates: the lowest and the highest layer of a chunk.
WorldYs == {0, FloatOf(ChunkHeight - 1)}

\* World z coordinates: 0 and -1 block.
WorldZs == {0, FloatOf(-1)}

WorldPositions == {<<x, y, z>> : x \in WorldXs, y \in WorldYs, z \in WorldZs}

\* What a caller writes into a block.
BlockSettings ==
    {[blockType |-> "stone", active |-> TRUE],
     [blockType |-> "", active |-> FALSE]}

InitWorld ==
    /\ bx = BxIdle
    /\ rb = NewPlayerBody(StartPos, HistoryCap)
    /\ ctl = NewPlayerController
    /\ registrations = {}
    /\ pre = rb
    /\ call = NoCall
    /\ nops = 0
    /\ world = NewWorld
    /\ win = NewWindow

\* One more call on the world of a run of at most MaxWorldOps calls.
WorldCalled(c) ==
    /\ nops < MaxWorldOps
    /\ nops' = nops + 1
    /\ call' = [c EXCEPT !.chunksWas = world.chunks]
    /\ UNCHANGED <<bx, rb, ctl, registrations, pre, win>>

\* World.SetBlock
WorldSetBlock ==
    \E pos \in WorldPositions, setting \in BlockSettings :
        /\ WorldCalled([NoCall EXCEPT !.op = "SetBlock", !.pos = pos,
                                      !.blockType = setting.blockType,
                                      !.active = setting.active])
        /\ world' = SetBlock(world, pos, setting.blockType, setting.active)

\* World.GetBlock: the block returned is kept in the call record.
WorldGetBlock ==
    \E pos \in WorldPositions :
        /\ WorldCalled([NoCall EXCEPT !.op = "GetBlock", !.pos = pos,
                                      !.seen = GetBlock(world, pos)])
        /\ world' = world

NextWorld == WorldSetBlock \/ WorldGetBlock

SpecWorld == InitWorld /\ [][NextWorld]_vars

---------------------------------------------------------------------------
\* Keys pressed, released and debounced

Keys == {"H", "F", "Escape"}

InitWindow ==
    /\ bx = BxIdle
    /\ rb = NewPlayerBody(StartPos, HistoryCap)
    /\ ctl = NewPlayerController
    /\ registrations = {}
    /\ pre = rb
    /\ call = NoCall
    /\ nops = 0
    /\ world = NewWorld
    /\ win = NewWindow

\* The user presses a key (seen by the next PollEvents).
KeyPress ==
    \E k \in Keys :
        /\ k \notin win.pressed
        /\ win' = [win EXCEPT !.pressed = @ \cup {k},
                              !.op = "Press", !.key = k, !.ret = FALSE,
                              !.heldWas = win.held, !.firedWas = win.fired]
        /\ UNCHANGED <<bx, rb, ctl, registrations, pre, call, nops, world>>

\* The user releases a key.
KeyRelease ==
    \E k \in Keys :
        /\ k \in win.pressed
        /\ win' = [win EXCEPT !.pressed = @ \ {k},
                              !.op = "Release", !.key = k, !.ret = FALSE,
                              !.heldWas = win.held, !.firedWas = win.fired,
                              !.fired = @ \ {k}]
        /\ UNCHANGED <<bx, rb, ctl, registrations, pre, call, nops, world>>

\* Window.Debounce
DoDebounce ==
    \E k \in Keys :
        LET res == Debounce(win, k)
        IN  /\ win' = [res[1] EXCEPT
                          !.op = "Debounce", !.key = k, !.ret = res[2],
                          !.heldWas = win.held, !.firedWas = win.fired,
                          !.held = IF res[2] THEN @ \cup {k}
                                   ELSE IF k \notin win.pressed THEN @ \ {k}
                                   ELSE @,
                          !.fired = IF res[2] THEN @ \cup {k} ELSE @]
            /\ UNCHANGED <<bx, rb, ctl, registrations, pre, call, nops, world>>

NextWindow == KeyPress \/ KeyRelease \/ DoDebounce

SpecWindow == InitWindow /\ [][NextWindow]_vars

---------------------------------------------------------------------------
\* Claims about the box tests (checked under SpecBox)

\* The closed intervals of a and b overlap on axis i.
OverlapOn(a, b, i) == a.Min[i] <= b.Max[i] /\ b.Min[i] <= a.Max[i]

\* a and b exactly touch on axis i (a max equals the other's min).
TouchOn(a, b, i) == a.Max[i] = b.Min[i] \/ b.Max[i] = a.Min[i]

\* The penetration depth on axis i: min(other.max - this.min, this.max - other.min).
DepthOn(a, b, i) ==
    IF b.Max[i] - a.Min[i] < a.Max[i] - b.Min[i]
    THEN b.Max[i] - a.Min[i]
    ELSE a.Max[i] - b.Min[i]

\* (other.max - this.min) - (this.max - other.min) on axis i
SideOn(a, b, i) == (b.Max[i] - a.Min[i]) - (a.Max[i] - b.Min[i])

\* depth d along axis i, negative when the side difference is negative
PenAlong(a, b, i) ==
    LET d == IF SideOn(a, b, i) < 0 THEN -DepthOn(a, b, i) ELSE DepthOn(a, b, i)
    IN  [j \in 1..3 |-> IF j = i THEN d ELSE 0]

MinDepth(a, b) ==
    LET S == {DepthOn(a, b, 1), DepthOn(a, b, 2), DepthOn(a, b, 3)}
    IN  CHOOSE m \in S : \A x \in S : m <= x

\* C1: for every pair of boxes A, B, A.Intersection(B) and B.Intersection(A)
\* return the same boolean.
C1_IntersectionSymmetric ==
    bx.op = "Intersection" =>
        bx.ret.hit = Intersection(bx.other, bx.this).hit

\* C1 witness: a call on two different boxes that touch on the receiver's
\* +x face and are reported as intersecting.
C1_Witness ==
    /\ bx.op = "Intersection"
    /\ bx.ret.hit
    /\ bx.this # bx.other
    /\ bx.this.Max[1] = bx.other.Min[1]
    /\ bx.this.Min[1] < bx.other.Min[1]

\* C2 (as claimed): Intersection returns true exactly when the closed
\* intervals overlap on all three axes; separated boxes give (false, zero
\* vector); boxes that exactly touch on an axis give true with a zero
\* penetration vector.
C2_OverlapAndTouch ==
    bx.op = "Intersection" =>
        /\ bx.ret.hit = (\A i \in 1..3 : OverlapOn(bx.this, bx.other, i))
        /\ ~bx.ret.hit => bx.ret.pen = Zero3
        /\ (bx.ret.hit /\ \E i \in 1..3 : TouchOn(bx.this, bx.other, i))
               => bx.ret.pen = Zero3

\* C3 (as claimed): on overlap the penetration vector is non-zero on at most
\* one axis and its absolute value there is the minimum of dx, dy, dz.
C3_MinimumDepthAxis ==
    (bx.op = "Intersection" /\ bx.ret.hit) =>
        \E i \in 1..3 :
            /\ \A j \in 1..3 : j # i => bx.ret.pen[j] = 0
            /\ Abs(bx.ret.pen[i]) = MinDepth(bx.this, bx.other)

\* C4 (as claimed): when two or three axes tie for the minimum depth, the
\* resolution axis is the first of X, Y, Z that attains the minimum.  (The
\* axis shows in the result only when the minimum depth is positive.)
C4_TieBreakXYZ ==
    LET a == bx.this
        b == bx.other
        m == MinDepth(a, b)
        atMin == {i \in 1..3 : DepthOn(a, b, i) = m}
        first == CHOOSE i \in atMin : \A j \in atMin : i <= j
    IN  (bx.op = "Intersection" /\ bx.ret.hit /\ Cardinality(atMin) >= 2 /\ m > 0)
            => bx.ret.pen = PenAlong(a, b, first)

\* The box b with its Y extent replaced by the interval iy.
WithY(b, iy) ==
    [Min |-> <<b.Min[1], iy[1], b.Min[3]>>, Max |-> <<b.Max[1], iy[2], b.Max[3]>>]

\* C5: IntersectionXZ depends only on the X and Z extents (no change of a Y
\* coordinate of either box changes its result: every pair of boxes gives
\* the result of the same pair flattened to y = 0); on overlap it returns a
\* vector along the axis (X or Z) of smaller depth, of that depth, negative
\* exactly when (other.max - this.min) - (this.max - other.min) is negative
\* on that axis; on no overlap it returns (false, zero vector).
C5_IntersectionXZ ==
    bx.op = "IntersectionXZ" =>
        LET a == bx.this
            b == bx.other
            got == [hit |-> bx.ret.hit, pen |-> bx.ret.pen]
            dx == DepthOn(a, b, 1)
            dz == DepthOn(a, b, 3)
        IN  /\ IntersectionXZ(WithY(a, <<0, 0>>), WithY(b, <<0, 0>>)) = got
            /\ IF OverlapOn(a, b, 1) /\ OverlapOn(a, b, 3)
               THEN /\ got.hit
                    /\ dx < dz => got.pen = PenAlong(a, b, 1)
                    /\ dz < dx => got.pen = PenAlong(a, b, 3)
                    /\ dx = dz => got.pen \in {PenAlong(a, b, 1), PenAlong(a, b, 3)}
               ELSE got = [hit |-> FALSE, pen |-> Zero3]

\* C5 witness: the boxes are apart on Y, overlap on X and Z with different
\* positive depths, and the call returned a non-zero vector.
C5_Witness ==
    /\ bx.op = "IntersectionXZ"
    /\ bx.ret.hit
    /\ ~OverlapOn(bx.this, bx.other, 2)
    /\ DepthOn(bx.this, bx.other, 1) > 0
    /\ DepthOn(bx.this, bx.other, 1) < DepthOn(bx.this, bx.other, 3)
    /\ bx.ret.pen # Zero3

---------------------------------------------------------------------------
\* Claims about the rigid body (checked under Spec)

\* The last call rebuilt the collider of the body: Move, Update and
\* SetPosition always do, Tick does for a registered body.
RebuiltCollider ==
    \/ call.op \in {"Move", "Update", "SetPosition"}
    \/ call.op = "Tick" /\ BodyId \in registrations

\* C6: after Move, Tick, Update and SetPosition return, the collider is the
\* box [Position - (Width/2, Height, Width/2), Position + (Width/2, 0, Width/2)]
\* of the body's final Position, whatever the sequence of operations, the
\* ground and the walls.
C6_ColliderAtFinalPosition ==
    RebuiltCollider =>
        /\ rb.Collider # NilBox
        /\ rb.Collider[1].Min =
               <<rb.Position[1] - rb.Width \div 2,
                 rb.Position[2] - rb.Height,
                 rb.Position[3] - rb.Width \div 2>>
        /\ rb.Collider[1].Max =
               <<rb.Position[1] + rb.Width \div 2,
                 rb.Position[2],
                 rb.Position[3] + rb.Width \div 2>>

\* C6 witness: a Move against walls whose horizontal sweep committed a step
\* and then stopped on a collision at the next tentative position.
C6_Witness ==
    /\ call.op = "Move"
    /\ call.walls # <<>>
    /\ pre.Collider # NilBox
    /\ call.movement[1] > 0
    /\ rb.Position[1] > pre.Position[1]
    /\ \E k \in 1..Len(call.walls) :
           LET w == call.walls[k]
               step == (rb.Position[1] - pre.Position[1])
           IN  /\ rb.Collider[1].Max[1] < w.Min[1]
               /\ rb.Collider[1].Max[1] + step >= w.Min[1]
               /\ \A i \in {2, 3} : OverlapOn(rb.Collider[1], w, i)

\* C7 (as claimed): the collider has its floor at the body's position: its
\* Min.Y is Position.Y and its Max.Y is Position.Y + Height.
C7_ColliderFloorAtPosition ==
    rb.Collider # NilBox =>
        /\ rb.Collider[1].Min[2] = rb.Position[2]
        /\ rb.Collider[1].Max[2] = rb.Position[2] + rb.Height

\* C8: Jump (RigidBody.Jump or MovementController.Jump) changes the body
\* only when Grounded: it then sets the vertical velocity to JumpSpeed, keeps
\* the X and Z velocity and clears Grounded; otherwise the body is unchanged
\* (so a Jump right after a successful one does nothing).
C8_JumpOnlyWhenGrounded ==
    call.op \in {"Jump", "CtlJump"} =>
        IF pre.Grounded
        THEN rb = [pre EXCEPT !.Velocity = <<pre.Velocity[1], pre.JumpSpeed,
                                             pre.Velocity[3]>>,
                              !.Grounded = FALSE]
        ELSE rb = pre

\* C8 witness: a Jump of a grounded body that was moving along x.
C8_Witness ==
    /\ call.op \in {"Jump", "CtlJump"}
    /\ pre.Grounded
    /\ pre.Velocity[1] # 0
    /\ rb.Velocity[2] = rb.JumpSpeed
    /\ ~rb.Grounded

\* C9: from an empty history, after more AppendHistory calls than
\* PositionHistoryLength, the history holds exactly PositionHistoryLength
\* entries: the positions of the last calls, the most recent first.
C9_HistoryKeepsLastCap ==
    LET n == Len(rb.appendLog)
        cap == rb.PositionHistoryLength
    IN  n > cap =>
            /\ Len(rb.PositionHistory) = cap
            /\ \A i \in 1..cap : rb.PositionHistory[i] = rb.appendLog[n + 1 - i]

\* C9 witness: more appends than the cap, at different positions.
C9_Witness ==
    /\ Len(rb.appendLog) > rb.PositionHistoryLength
    /\ call.op \in {"AppendHistory", "SetPosition", "Update", "Tick"}
    /\ rb.appendLog[Len(rb.appendLog)] # rb.appendLog[1]
    /\ rb.PositionHistory[1] = rb.Position

\* C10 (as claimed, for a non-flying body and a call with no vertical
\* movement): if the collider bottom is below the top of the ground box by
\* more than 0.001 and the two overlap on X and Z, one Move with that ground
\* leaves the collider bottom at or above the ground top plus 0.2 and
\* Grounded true, whatever the depth and the thickness of the ground box.
C10_GroundSnapClearsGround ==
    (/\ call.op = "Move"
     /\ call.ground # NilBox
     /\ call.movement[2] = 0
     /\ ~pre.Flying
     /\ pre.Collider # NilBox
     /\ OverlapOn(pre.Collider[1], call.ground[1], 1)
     /\ OverlapOn(pre.Collider[1], call.ground[1], 3)
     /\ call.ground[1].Max[2] - pre.Collider[1].Min[2] > SnapEpsilon)
        => /\ rb.Grounded
           /\ rb.Collider[1].Min[2] >= call.ground[1].Max[2] + SnapMargin

\* The collider of body r overlaps (closed intervals, all three axes) some
\* box of the list walls.
InsideWall(r, walls) ==
    \E k \in 1..Len(walls) :
        \A i \in 1..3 : OverlapOn(r.Collider[1], walls[k], i)

\* C11 (as claimed): if the collider intersects no wall when Move is called
\* with a non-empty wall list, it intersects no wall when Move returns,
\* whatever the movement, velocity, ground box and flags.
C11_NeverEndsInsideWall ==
    (/\ call.op = "Move"
     /\ call.walls # <<>>
     /\ pre.Collider # NilBox
     /\ ~InsideWall(pre, call.walls))
        => ~InsideWall(rb, call.walls)

---------------------------------------------------------------------------
\* Claims about the engine's tick (checked under SpecFall and Spec)

\* The last call was a Tick that found the body registered.
TickedRegistered == call.op = "Tick" /\ BodyId \in call.regs

\* C12: for a registered body that is airborne, not flying and free of
\* external force, a Tick makes the vertical velocity strictly more negative
\* as long as it was above the terminal velocity, leaves it exactly at the
\* terminal velocity once it was there, and never leaves it below the
\* terminal velocity.
C12_FallsUntilTerminal ==
    (/\ TickedRegistered
     /\ ~pre.Grounded
     /\ ~pre.Flying
     /\ pre.Force = Zero3)
        => /\ pre.Velocity[2] > DefaultTerminalVelocity
                => rb.Velocity[2] < pre.Velocity[2]
           /\ pre.Velocity[2] = DefaultTerminalVelocity
                => rb.Velocity[2] = DefaultTerminalVelocity
           /\ rb.Velocity[2] >= DefaultTerminalVelocity

\* A tick at 1/60 s that found the falling body at the terminal velocity.
C12_Witness ==
    /\ TickedRegistered
    /\ call.den = 60
    /\ ~pre.Grounded
    /\ ~pre.Flying
    /\ pre.Force = Zero3
    /\ pre.Velocity[2] = DefaultTerminalVelocity
    /\ rb.Velocity[2] = DefaultTerminalVelocity

\* C13: after a Tick that updated the body, a body whose Grounded flag is
\* true has vertical velocity >= 0, whatever velocity and force it had before.
C13_GroundedNeverSinks ==
    (TickedRegistered /\ rb.Grounded) => rb.Velocity[2] >= 0

\* A grounded body pushed downward by its accumulated force, then ticked.
C13_Witness ==
    /\ TickedRegistered
    /\ rb.Grounded
    /\ pre.Force[2] < 0
    /\ rb.Velocity[2] = 0

\* C14: the body of width 0.6, height 1.8 and mass 70 created at (0,10,0)
\* with gravity 12, registered and ticked 60 times at dt = 1/60 with no other
\* call, has vertical velocity max(-gravity * 1.0, terminal velocity) = -10.
C14_SixtyTicksReachTerminal ==
    (nops = 60 /\ TickedRegistered /\ call.den = 60)
        => /\ rb.Velocity[2] = maxf(-rb.Gravity, DefaultTerminalVelocity)
           /\ rb.Velocity[2] = -(10 * Unit)

\* The sixtieth tick at 1/60 s of the dropped body.
C14_Witness ==
    /\ nops = 60
    /\ TickedRegistered
    /\ call.den = 60
    /\ rb.Mass = DefaultPlayerMass
    /\ rb.Gravity = DefaultGravity
    /\ rb.Velocity[2] = -(10 * Unit)

\* C15: the registry is a set. Register of a registered body and Unregister
\* of an unregistered body leave it unchanged, Unregister removes the body, a
\* Tick updates a registered body exactly once, and a Tick leaves every field
\* of an unregistered body unchanged.
C15_RegistryIsSet ==
    /\ (call.op = "Register" /\ BodyId \in call.regs)
            => registrations = call.regs
    /\ (call.op = "Unregister" /\ BodyId \notin call.regs)
            => registrations = call.regs
    /\ call.op = "Unregister" => BodyId \notin registrations
    /\ TickedRegistered => rb = update(pre, call.den)
    /\ (call.op = "Tick" /\ BodyId \notin call.regs) => rb = pre

\* A Tick after Unregister on a body that an update would have changed.
C15_Witness ==
    /\ call.op = "Tick"
    /\ BodyId \notin call.regs
    /\ update(pre, call.den) # pre
    /\ rb = pre

---------------------------------------------------------------------------
\* Claims about the movement controller (checked under Spec and SpecCtlMove)

\* C16: after every ToggleFlight the controller's Flying flag equals the
\* body's, also when the two differed before the call; after two successive
\* ToggleFlight calls the controller's flag is what it was before them.
C16_ToggleFlightSyncs ==
    call.op = "ToggleFlight"
        => /\ ctl.Flying = rb.Flying
           /\ call.toggles = 2 => ctl.Flying = call.flag0

\* A ToggleFlight made while the two flags differed.
C16_Witness ==
    /\ call.op = "ToggleFlight"
    /\ pre.Flying # call.ctlWas.Flying
    /\ ctl.Flying = rb.Flying

\* The tolerance of a length comparison: 0.001 unit.
LenTolerance == Unit \div 1000

\* The input direction of the last controller Move before it is normalised.
InputDirection ==
    LET flatView == <<call.view[1], 0, call.view[3]>>
        flatSide == <<call.side[1], 0, call.side[3]>>
        level    == VAdd(VMul(flatView, call.input[1], Unit),
                         VMul(flatSide, call.input[2], Unit))
    IN  IF call.ctlWas.Flying THEN VAdd(level, <<0, call.input[3], 0>>) ELSE level

Prepended(p, h, cap) ==
    LET all == <<p>> \o h
    IN  IF Len(all) > cap THEN SubSeq(all, 1, Len(all) - 1) ELSE all

\* C18: the controller's Update adds the vector returned by Move to the
\* Position with no collision test, leaves Velocity, Force, Grounded and
\* Flying unchanged, prepends the new position to the history and rebuilds
\* the collider at the new position.
C18_UpdateMovesDirectly ==
    call.op = "Update"
        => /\ rb.Position =
                  VAdd(pre.Position,
                       CtlMove(call.ctlWas, call.input[1], call.input[2],
                               call.input[3], ViewVector, RightVector))
           /\ rb.Velocity = pre.Velocity
           /\ rb.Force = pre.Force
           /\ rb.Grounded = pre.Grounded
           /\ rb.Flying = pre.Flying
           /\ rb.PositionHistory =
                  Prepended(rb.Position, pre.PositionHistory,
                            pre.PositionHistoryLength)
           /\ rb.Collider = <<[Min |-> VSub(rb.Position,
                                            <<rb.Width \div 2, rb.Height,
                                              rb.Width \div 2>>),
                               Max |-> VAdd(rb.Position,
                                            <<rb.Width \div 2, 0,
                                              rb.Width \div 2>>)]>>

\* An Update that carried the body from clear of the wall WallX into it.
C18_Witness ==
    /\ call.op = "Update"
    /\ pre.Collider # NilBox
    /\ ~InsideWall(pre, <<WallX>>)
    /\ InsideWall(rb, <<WallX>>)

---------------------------------------------------------------------------
\* Claims about Move's ground flag and vertical sweep (Spec and SpecSweep)

\* C19: every Move with a ground box returns with Grounded true; if Grounded
\* was false on entry the vertical velocity is 0 on return (the velocity of a
\* Jump made just before is discarded) and the X and Z velocity are unchanged.
C19_GroundedOnReturn ==
    (call.op = "Move" /\ call.ground # NilBox)
        => /\ rb.Grounded
           /\ ~pre.Grounded
                => /\ rb.Velocity[2] = 0
                   /\ rb.Velocity[1] = pre.Velocity[1]
                   /\ rb.Velocity[3] = pre.Velocity[3]

\* A Move over ground made by a body still rising from a Jump.
C19_Witness ==
    /\ call.op = "Move"
    /\ call.ground # NilBox
    /\ ~pre.Grounded
    /\ pre.Velocity[2] = pre.JumpSpeed
    /\ rb.Grounded
    /\ rb.Velocity[2] = 0

\* The vertical displacement the last Move (made without a ground box) swept.
SweptDy ==
    IF pre.Flying
    THEN call.movement[2] * pre.FlyingSpeedMultipier
    ELSE pre.Velocity[2]

\* The last call was a Move whose vertical sweep ran.
VerticalSweepRan ==
    /\ call.op = "Move"
    /\ call.ground = NilBox
    /\ call.walls # <<>>
    /\ pre.Collider # NilBox
    /\ SweptDy # 0

\* The height at which a sweep of SweptDy in n equal steps stops: after the
\* last step of the longest collision-free run of steps from the start.
StopHeight(n) ==
    LET step == Quot(SweptDy, n)
        Clear(k) == ~HasCollision(
                        UpdateColliderAtPosition(
                            pre, VAdd(pre.Position, <<0, k * step, 0>>)),
                        call.walls)
        done == CHOOSE k \in 0..n :
                    /\ \A j \in 1..k : Clear(j)
                    /\ k = n \/ ~Clear(k + 1)
    IN  pre.Position[2] + done * step

\* C20 (amended): the vertical sweep divides a non-zero displacement dy into
\* floor(|dy| * 5) + 1 equal steps, which is ceil(|dy| * 5) unless |dy| * 5
\* is a whole number, and then one more (|dy| = 1 gives 6 steps).
C20_StepsFloorPlusOne ==
    VerticalSweepRan
        => rb.Position[2] = StopHeight(((Abs(SweptDy) * 5) \div Unit) + 1)

\* A sweep of exactly one unit down that was stopped part of the way.
C20_Witness ==
    /\ VerticalSweepRan
    /\ Abs(SweptDy) = Unit
    /\ rb.Position[2] # pre.Position[2]
    /\ rb.Position[2] # pre.Position[2] + SweptDy

\* C20 (as claimed): the vertical sweep divides a non-zero displacement dy
\* into exactly ceil(|dy| * 5) equal steps, also when |dy| * 5 is whole.
C20_StepsCeil ==
    VerticalSweepRan
        => rb.Position[2] = StopHeight(((Abs(SweptDy) * 5) + Unit - 1) \div Unit)

---------------------------------------------------------------------------
\* Claims about the two branches of Move (checked under Spec and SpecSweep)

\* The body of the last Move after its ground handling.
AfterGround == MoveGround(pre, call.ground)

\* The last call was a Move that took the swept branch.
SweptBranch ==
    /\ call.op = "Move"
    /\ call.walls # <<>>
    /\ pre.Collider # NilBox

\* The last call was a Move that took the direct branch.
DirectBranch ==
    /\ call.op = "Move"
    /\ call.walls = <<>> \/ pre.Collider = NilBox

\* The vertical displacement of the last Move's sweep as the claim gives it.
AttemptedDy ==
    IF pre.Flying
    THEN call.movement[2] * pre.FlyingSpeedMultipier
    ELSE IF call.ground = NilBox THEN pre.Velocity[2] ELSE 0

\* The step k of a sweep of dy in n steps from body r finds no wall.
ClearStep(r, dy, n, k) ==
    ~HasCollision(
        UpdateColliderAtPosition(r, VAdd(r.Position, <<0, k * Quot(dy, n), 0>>)),
        call.walls)

\* The height body r reaches when it sweeps dy in n steps and stops before
\* the first step that finds a wall.
ReachedY(r, dy, n) ==
    LET done == CHOOSE k \in 0..n :
                    /\ \A j \in 1..k : ClearStep(r, dy, n, j)
                    /\ k = n \/ ~ClearStep(r, dy, n, k + 1)
    IN  r.Position[2] + done * Quot(dy, n)

\* The vertical movement offered to the controllerless Move.
YInputs == {0, -Unit, Unit}

\* C21: in a Move with walls and a collider the vertical displacement swept
\* is Velocity.Y for an airborne body that is not flying, the flying-multiplied
\* movement.Y for a flying body, and zero for a grounded body that is not
\* flying, whose height then changes only by the ground snap; movement.Y has
\* no effect on a body that is not flying.
C21_VerticalDisplacement ==
    SweptBranch
        => /\ AttemptedDy # 0
                => rb.Position[2] =
                       ReachedY(AfterGround, AttemptedDy, VerticalSteps(AttemptedDy))
           /\ AttemptedDy = 0 => rb.Position[2] = AfterGround.Position[2]
           /\ ~pre.Flying
                => \A y \in YInputs :
                       Move(pre, <<call.movement[1], y, call.movement[3]>>,
                            call.ground, NilBox, call.walls) = rb

\* A flying body moved down between walls by its movement vector while its
\* own vertical velocity is zero.
C21_Witness ==
    /\ SweptBranch
    /\ pre.Flying
    /\ pre.Velocity[2] = 0
    /\ call.movement[2] # 0
    /\ rb.Position[2] # AfterGround.Position[2]

\* The vertical sweep of the last Move (made without a ground box) met a wall.
SweepBlocked ==
    /\ VerticalSweepRan
    /\ \E k \in 1..VerticalSteps(SweptDy) :
           ~ClearStep(pre, SweptDy, VerticalSteps(SweptDy), k)

\* C22: when a step of the vertical sweep finds a wall no further vertical
\* step is committed, the vertical velocity is 0 on return, and Grounded is
\* true on return if the vertical velocity was negative; so a Move without a
\* ground box can return with Grounded true.
C22_BlockedSweepStops ==
    SweepBlocked
        => /\ rb.Position[2] = ReachedY(pre, SweptDy, VerticalSteps(SweptDy))
           /\ rb.Velocity[2] = 0
           /\ pre.Velocity[2] < 0 => rb.Grounded

\* A falling body stopped part of the way down by a wall box, with no ground
\* box given, returned grounded.
C22_Witness ==
    /\ SweepBlocked
    /\ ~pre.Flying
    /\ pre.Velocity[2] < 0
    /\ rb.Position[2] # pre.Position[2]
    /\ rb.Grounded
    /\ rb.Velocity[2] = 0

\* The movement vector of the last Move after damping.
DampedMovement == MoveDamped(AfterGround, call.movement)

\* C23 (amended): with an empty wall list or no collider, the final position
\* is the ground-snapped start position plus the damped movement plus, for
\* a body that is not flying, (0, Velocity.Y, 0), in one step; the collider
\* is rebuilt at the final position, also when there was none.
C23_DirectMoveUnlessFlying ==
    DirectBranch
        => /\ rb.Position =
                  VAdd(VAdd(AfterGround.Position, DampedMovement),
                       IF pre.Flying THEN Zero3
                                     ELSE <<0, AfterGround.Velocity[2], 0>>)
           /\ rb.Collider = <<[Min |-> VSub(rb.Position,
                                            <<rb.Width \div 2, rb.Height,
                                              rb.Width \div 2>>),
                               Max |-> VAdd(rb.Position,
                                            <<rb.Width \div 2, 0,
                                              rb.Width \div 2>>)]>>

\* A direct Move of a flying body that has a vertical velocity.
C23_Witness ==
    /\ DirectBranch
    /\ pre.Flying
    /\ pre.Velocity[2] # 0
    /\ rb.Position = VAdd(pre.Position, DampedMovement)

\* C23 (as claimed): with an empty wall list or no collider, the final
\* position is the ground-snapped start position plus the damped movement
\* plus (0, Velocity.Y, 0) for every body.
C23_DirectMoveAddsVelocity ==
    DirectBranch
        => rb.Position =
               VAdd(VAdd(AfterGround.Position, DampedMovement),
                    <<0, AfterGround.Velocity[2], 0>>)

---------------------------------------------------------------------------
\* Claims about the tail of the engine's update (checked under Spec)

\* C24: in each Tick the position prepended to the history is the position
\* the body had before the tick: right after the Tick PositionHistory[0] is
\* the pre-tick Position and Position is that plus Velocity * dt, with the
\* velocity as the tick left it.
C24_HistoryHoldsPreTickPosition ==
    TickedRegistered
        => /\ Len(rb.PositionHistory) > 0
           /\ Head(rb.PositionHistory) = pre.Position
           /\ rb.Position = VAdd(pre.Position, VMul(rb.Velocity, 1, call.den))

\* A Tick that moved the body.
C24_Witness ==
    /\ TickedRegistered
    /\ rb.Position # pre.Position
    /\ Head(rb.PositionHistory) = pre.Position

\* C25: in each Tick a registered body's Force is the zero vector when the
\* tick ends, its OnPositionUpdated callback, if set, is invoked exactly once
\* and sees the body with velocity, position, collider, history, trip
\* distance and force all updated, and Grounded and Flying are unchanged.
C25_TickEndsWithCallback ==
    TickedRegistered
        => /\ rb.Force = Zero3
           /\ rb.Grounded = pre.Grounded
           /\ rb.Flying = pre.Flying
           /\ call.seen = IF pre.OnPositionUpdated THEN <<rb>> ELSE <<>>

\* A Tick of a body that carried a force and has a callback.
C25_Witness ==
    /\ TickedRegistered
    /\ pre.Force # Zero3
    /\ pre.OnPositionUpdated
    /\ call.seen = <<rb>>
    /\ rb.Position # pre.Position

\* C26: TripDistance is never negative; a Tick with a non-zero displacement
\* increases it by the displacement's magnitude, and a Tick with zero
\* displacement leaves it at 0.
C26_TripDistance ==
    /\ rb.TripDistance >= 0
    /\ TickedRegistered
        => LET dpos == VSub(rb.Position, pre.Position)
           IN  /\ dpos # Zero3
                    => rb.TripDistance = pre.TripDistance + VLen(dpos)
               /\ dpos = Zero3 => rb.TripDistance = 0

\* A Tick that did not move a body which had travelled before.
C26_Witness ==
    /\ TickedRegistered
    /\ rb.Position = pre.Position
    /\ pre.TripDistance > 0
    /\ rb.TripDistance = 0

---------------------------------------------------------------------------
\* Claims about the history cap (checked under SpecHistory)

\* C27 (as claimed): after every call that appends to the history (Tick,
\* Update, SetPosition, AppendHistory), in any sequence interleaved with
\* changes of PositionHistoryLength, the history is no longer than the
\* current PositionHistoryLength.
C27_HistoryWithinCurrentCap ==
    (\/ call.op \in {"Update", "SetPosition", "AppendHistory"}
     \/ TickedRegistered)
        => Len(rb.PositionHistory) <= rb.PositionHistoryLength

---------------------------------------------------------------------------
\* Claims about the player's walk (checked under SpecWalk)

\* The displacement of the body by the last call.
Displacement == VSub(rb.Position, pre.Position)

\* Amounts a and b point the same way.
SameSign(a, b) == (a > 0 /\ b > 0) \/ (a < 0 /\ b < 0)

\* C28: MoveForward and MoveRight with a non-zero amount displace the body
\* horizontally by exactly Controller.Speed, the same for every amount of the
\* same sign, so the displacement made by UpdatePhysics is the same for
\* every frame delta.
C28_WalkStepIsSpeed ==
    /\ (call.op = "MoveForward" /\ call.input[1] # 0)
            => /\ Displacement[2] = 0
               /\ VLen(Displacement) = ctl.Speed
               /\ \A a \in Amounts :
                      SameSign(a, call.input[1])
                          => MoveForward(ctl, pre, a, call.view, call.side) = rb
    /\ (call.op = "MoveRight" /\ call.input[2] # 0)
            => /\ Displacement[2] = 0
               /\ VLen(Displacement) = ctl.Speed
               /\ \A a \in Amounts :
                      SameSign(a, call.input[2])
                          => MoveRight(ctl, pre, a, call.view, call.side) = rb
    /\ call.op = "UpdatePhysics"
            => \A den \in WalkDens :
                   UpdatePhysics(ctl, pre, den, call.input[1], call.input[2],
                                 call.view, call.side) = rb

\* MoveForward by one sixtieth of a unit with the camera pitched down, which
\* moved the body a whole Speed.
C28_Witness ==
    /\ call.op = "MoveForward"
    /\ call.input[1] = Unit \div 60
    /\ call.view[2] # 0
    /\ Displacement[2] = 0
    /\ VLen(Displacement) = ctl.Speed

---------------------------------------------------------------------------
\* Claims about the block world (checked under SpecWorld)

\* C29 (as claimed): for every world position with 0 <= y < 256, negative x
\* or z included, after SetBlock(pos, type, active) GetBlock(pos) returns a
\* block with that type and that active flag, and the block written lies in
\* the chunk GetChunk(pos) returns (no other chunk has changed).
C29_SetThenGetBlock ==
    (/\ call.op = "SetBlock"
     /\ call.pos[2] >= 0
     /\ call.pos[2] < FloatOf(ChunkHeight))
        => /\ GetBlock(world, call.pos) # NilBlock
           /\ GetBlock(world, call.pos)[1].BlockType = call.blockType
           /\ GetBlock(world, call.pos)[1].Active = call.active
           /\ GetChunk(world, call.pos) # NilChunk
           /\ \A k \in DOMAIN world.chunks :
                  k # GetChunkKey(GetChunk(world, call.pos)[1].Position)
                      => /\ k \in DOMAIN call.chunksWas
                         /\ world.chunks[k] = call.chunksWas[k]

---------------------------------------------------------------------------
\* Claims about the window (checked under SpecWindow)

\* C30: for each key Debounce returns true at most once per continuous
\* press: a call that returns true was not preceded by another that returned
\* true unless a call in between saw the key released, nor by another one
\* during the same press; and a call that sees the key released returns false.
C30_DebounceOncePerPress ==
    win.op = "Debounce"
        => /\ win.ret => win.key \notin win.heldWas
           /\ win.ret => win.key \notin win.firedWas
           /\ win.key \notin win.pressed => ~win.ret

\* Debounce called again while the key is still down after it had returned
\* true for it: it returns false.
C30_Witness ==
    /\ win.op = "Debounce"
    /\ win.key \in win.pressed
    /\ win.key \in win.heldWas
    /\ win.key \in win.firedWas
    /\ ~win.ret

====
